---- MODULE Spec2Model ----
(***************************************************************************)
(* A model of the namespace-import language-service plugin (Plugin.js and  *)
(* the decorating layer that wires it into the host language service).     *)
(*                                                                         *)
(* Strings are sequences of one-character strings, so that the character   *)
(* level operations of the code (startsWith, includes, replace, slice,     *)
(* the regular expressions, node:path) are computed and not assumed.       *)
(* node:path is modelled as its POSIX implementation.                      *)
(***************************************************************************)
EXTENDS Integers, Sequences, FiniteSets, TLC

\* A string literal as a sequence of characters.
Str(s) == [i \in 1..Len(s) |-> SubSeq(s, i, i)]

\* JavaScript's undefined (or null) where a string is expected: a value that is no
\* sequence of characters. A string is truthy when it is neither None nor empty.
None == <<"undefined">>
Truthy(s) == s # None /\ s # <<>>

(***************************************************************************)
(* Character classes and the String.prototype methods the code uses.       *)
(***************************************************************************)
LowerLetters == Str("abcdefghijklmnopqrstuvwxyz")
UpperLetters == Str("ABCDEFGHIJKLMNOPQRSTUVWXYZ")
Digits == Str("0123456789")

Range(f) == {f[i] : i \in DOMAIN f}

IsUpper(c) == c \in Range(UpperLetters)
IsLower(c) == c \in Range(LowerLetters)
IsAlnum(c) == IsUpper(c) \/ IsLower(c) \/ c \in Range(Digits)

toUpperCaseChar(c) ==
  IF IsLower(c) THEN UpperLetters[CHOOSE i \in 1..26 : LowerLetters[i] = c] ELSE c
toLowerCaseChar(c) ==
  IF IsUpper(c) THEN LowerLetters[CHOOSE i \in 1..26 : UpperLetters[i] = c] ELSE c

toUpperCase(s) == [i \in 1..Len(s) |-> toUpperCaseChar(s[i])]
toLowerCase(s) == [i \in 1..Len(s) |-> toLowerCaseChar(s[i])]

\* s.startsWith(p)
startsWith(s, p) == Len(p) <= Len(s) /\ SubSeq(s, 1, Len(p)) = p
\* s.endsWith(p)
endsWith(s, p) == Len(p) <= Len(s) /\ SubSeq(s, Len(s) - Len(p) + 1, Len(s)) = p
\* s.includes(p)
includes(s, p) == \E i \in 1..(Len(s) - Len(p) + 1) : SubSeq(s, i, i + Len(p) - 1) = p
\* s.replace(/c/g, d) for single characters c, d
replaceAll(s, c, d) == [i \in 1..Len(s) |-> IF s[i] = c THEN d ELSE s[i]]
\* s.slice(start, end) with JavaScript's 0-based, end-exclusive, clamped indices
slice(s, start, end) ==
  LET lo == IF start < 0 THEN 0 ELSE IF start > Len(s) THEN Len(s) ELSE start
      hi == IF end < 0 THEN 0 ELSE IF end > Len(s) THEN Len(s) ELSE end
  IN IF hi <= lo THEN <<>> ELSE SubSeq(s, lo + 1, hi)

\* The 1-based index of the last occurrence of character c in s, 0 when absent.
LastIndexOf(s, c) ==
  LET hits == {i \in 1..Len(s) : s[i] = c}
  IN IF hits = {} THEN 0 ELSE CHOOSE i \in hits : \A j \in hits : j <= i

\* s.split(c) for a single character c: the pieces between occurrences of c.
RECURSIVE splitChar(_, _)
splitChar(s, c) ==
  LET hits == {i \in 1..Len(s) : s[i] = c}
  IN IF hits = {} THEN <<s>>
     ELSE LET k == CHOOSE i \in hits : \A j \in hits : i <= j
          IN <<SubSeq(s, 1, k - 1)>> \o splitChar(SubSeq(s, k + 1, Len(s)), c)

\* pieces.join(sep)
RECURSIVE join(_, _)
join(pieces, sep) ==
  IF pieces = <<>> THEN <<>>
  ELSE IF Len(pieces) = 1 THEN pieces[1]
  ELSE pieces[1] \o sep \o join(Tail(pieces), sep)

\* pieces.join("")
RECURSIVE concatAll(_)
concatAll(pieces) ==
  IF pieces = <<>> THEN <<>> ELSE pieces[1] \o concatAll(Tail(pieces))

\* seq.filter(pred), for a predicate given as the set of the kept values' indices
RECURSIVE filterSeq(_, _)
filterSeq(seq, keep) ==
  IF seq = <<>> THEN <<>>
  ELSE LET rest == filterSeq(Tail(seq), {i - 1 : i \in keep \ {1}})
       IN IF 1 \in keep THEN <<seq[1]>> \o rest ELSE rest

(***************************************************************************)
(* node:path (POSIX).                                                      *)
(***************************************************************************)
Slash == "/"

\* The path without its trailing separators.
RECURSIVE stripTrailingSeps(_)
stripTrailingSeps(p) ==
  IF p # <<>> /\ p[Len(p)] = Slash THEN stripTrailingSeps(SubSeq(p, 1, Len(p) - 1))
  ELSE p

\* The part of q after its last separator.
afterLastSlash(q) == SubSeq(q, LastIndexOf(q, Slash) + 1, Len(q))

\* path.basename(p): the last portion of the path, trailing separators ignored.
lastPortion(p) == afterLastSlash(stripTrailingSeps(p))

\* The extension of a last portion b: from its last "." to its end; empty when
\* there is no ".", when the only "." is its first character, or when b is "..".
extensionFrom(b, d) ==
  IF d <= 1 \/ b = <<".", ".">> THEN <<>> ELSE SubSeq(b, d, Len(b))
extensionOf(b) == extensionFrom(b, LastIndexOf(b, "."))

\* path.extname(p)
extname(p) == extensionOf(lastPortion(p))

\* The last portion b of p without the suffix ext.
withoutSuffix(b, p, ext) ==
  IF ext # <<>> /\ ext = p THEN <<>>
  ELSE IF ext # <<>> /\ endsWith(b, ext) /\ b # ext
  THEN SubSeq(b, 1, Len(b) - Len(ext))
  ELSE b

\* path.basename(p, ext)
basename(p, ext) == withoutSuffix(lastPortion(p), p, ext)

\* path.dirname(p)
dirname(p) ==
  LET hasRoot == p # <<>> /\ p[1] = Slash
      ends == {k \in 2..Len(p) : p[k] = Slash /\ \E j \in (k + 1)..Len(p) : p[j] # Slash}
      end == CHOOSE k \in ends : \A j \in ends : j <= k
  IN IF p = <<>> THEN <<".">>
     ELSE IF ends = {} THEN (IF hasRoot THEN <<Slash>> ELSE <<".">>)
     ELSE IF hasRoot /\ end = 2 THEN <<Slash, Slash>>
     ELSE SubSeq(p, 1, end - 1)

\* The segments of a path after normalisation: "" and "." dropped, ".." popping.
RECURSIVE normalizeSegments(_, _)
normalizeSegments(segs, acc) ==
  IF segs = <<>> THEN acc
  ELSE IF segs[1] = <<>> \/ segs[1] = <<".">> THEN normalizeSegments(Tail(segs), acc)
  ELSE IF segs[1] = <<".", ".">>
  THEN normalizeSegments(Tail(segs),
         IF acc = <<>> THEN acc ELSE SubSeq(acc, 1, Len(acc) - 1))
  ELSE normalizeSegments(Tail(segs), Append(acc, segs[1]))

isAbsolute(p) == p # <<>> /\ p[1] = Slash

\* The working directory of the server process, which path.resolve and path.relative
\* fall back on for a relative argument.
ProcessCwd == <<Slash>>

\* The path that path.resolve(base, p) normalises: the rightmost absolute argument
\* and what follows it.
joinedForResolve(base, p) ==
  IF isAbsolute(p) THEN p
  ELSE IF isAbsolute(base) THEN base \o <<Slash>> \o p
  ELSE ProcessCwd \o <<Slash>> \o base \o <<Slash>> \o p

\* The segments of path.resolve(base, p).
resolveSegments(base, p) == normalizeSegments(splitChar(joinedForResolve(base, p), Slash), <<>>)

\* path.resolve(base, p): an absolute, normalised path without a trailing separator.
resolve(base, p) == <<Slash>> \o join(resolveSegments(base, p), <<Slash>>)

\* The length of the longest common prefix of two sequences of segments.
RECURSIVE commonPrefixLen(_, _)
commonPrefixLen(a, b) ==
  IF a = <<>> \/ b = <<>> \/ a[1] # b[1] THEN 0
  ELSE 1 + commonPrefixLen(Tail(a), Tail(b))

\* The relative path between resolved paths of segments f and t with n common
\* leading segments: one ".." for each other segment of f, then the rest of t.
upAndDown(f, t, n) ==
  join([i \in 1..(Len(f) - n) |-> <<".", ".">>] \o SubSeq(t, n + 1, Len(t)), <<Slash>>)
relativeSegments(f, t) == upAndDown(f, t, commonPrefixLen(f, t))

\* path.relative(from, to) (path.posix.relative is the same function)
relative(from, to) ==
  IF from = to THEN <<>>
  ELSE relativeSegments(resolveSegments(ProcessCwd, from), resolveSegments(ProcessCwd, to))

(***************************************************************************)
(* Plugin.js: the helpers.                                                 *)
(***************************************************************************)

\* getFileNameWithoutExt(filePath)
getFileNameWithoutExt(filePath) == basename(filePath, extname(filePath))

\* getFilePathWithoutExt(filePath)
getFilePathWithoutExt(filePath) ==
  slice(filePath, 0, Len(filePath) - Len(extname(filePath)))

\* str.replace(/[^a-zA-Z0-9]/g, " ")
replaceNonAlnum(str) == [i \in 1..Len(str) |-> IF IsAlnum(str[i]) THEN str[i] ELSE " "]

\* Of the pieces between single spaces, those between runs of spaces: an empty piece
\* is kept only at the very start or end.
betweenRuns(pieces) ==
  filterSeq(pieces, {i \in 1..Len(pieces) : pieces[i] # <<>> \/ i = 1 \/ i = Len(pieces)})

\* s.split(/\s+/) of a string whose only whitespace is " "
splitWhitespaceRuns(s) == betweenRuns(splitChar(s, " "))

\* words.filter(Boolean)
nonEmpty(words) == filterSeq(words, {i \in 1..Len(words) : words[i] # <<>>})

\* word.charAt(0).toUpperCase() + word.slice(1).toLowerCase()
capitalize(word) ==
  toUpperCase(slice(word, 0, 1)) \o toLowerCase(slice(word, 1, Len(word)))

\* stringCase's map and join, with the rest of each word left as it is written
recaseKeepingRest(words, pascalCase) ==
  concatAll([index \in 1..Len(words) |->
    IF index = 1 /\ ~pascalCase THEN toLowerCase(words[index])
    ELSE toUpperCase(slice(words[index], 0, 1)) \o slice(words[index], 1, Len(words[index]))])

\* stringCase's map and join over the words
recase(words, pascalCase) ==
  concatAll([index \in 1..Len(words) |->
    IF index = 1 /\ ~pascalCase THEN toLowerCase(words[index])
    ELSE capitalize(words[index])])

\* stringCase(str, {pascalCase})
stringCase(str, pascalCase) ==
  recase(nonEmpty(splitWhitespaceRuns(replaceNonAlnum(str))), pascalCase)

\* transformImportName(name, options)
transformImportName(name, options) ==
  IF Truthy(options.nameTransform)
  THEN stringCase(name, options.nameTransform = Str("PascalCase"))
  ELSE name

(***************************************************************************)
(* The host's capabilities, as the plugin sees them.                       *)
(*   options  info.config.options: paths (PathsAbsent when not configured),*)
(*            ignoreNamedExport, nameTransform (None when not configured), *)
(*            capitalizedFilesOnly, namespaceNamedExports                  *)
(*   project  currentDir; listing: what readDirectory reports for a root;  *)
(*            compilerOptions: baseUrl and importModuleSpecifierEnding     *)
(*            (None when unset); sourceFiles: the text of each file of the *)
(*            program; hasHost: project.projectService?.host;              *)
(*            nativeSpecifier: what ts.moduleSpecifiers.getModuleSpecifier *)
(*            returns, or NativeThrows                                     *)
(***************************************************************************)
PathsAbsent == <<None>>
NativeThrows == <<"thrown">>

\* options.paths && options.paths.length > 0
hasPaths(options) == options.paths # PathsAbsent /\ Len(options.paths) > 0

\* project.readDirectory(root, extensions, ...): the host's answer for that root.
readDirectory(project, root) ==
  IF root \in DOMAIN project.listing THEN project.listing[root] ELSE <<>>

\* program?.getSourceFile(fileName) is defined
hasSourceFile(project, fileName) == fileName \in DOMAIN project.sourceFiles

(***************************************************************************)
(* Plugin.js: module discovery.                                            *)
(***************************************************************************)

\* The filter of getModulePathsToImport on a basename, without the check of
\* capitalizedFilesOnly
keepBasenameAnyCase(base, options) == ~includes(base, <<".">>)

\* The filter of getModulePathsToImport on a basename
keepBasename(base, options) ==
  IF includes(base, <<".">>) THEN FALSE
  ELSE IF options.capitalizedFilesOnly THEN base # <<>> /\ IsUpper(base[1])
  ELSE TRUE

\* The callback of modulePaths.filter in getModulePathsToImport
keepModulePath(filePath, options) == keepBasename(getFileNameWithoutExt(filePath), options)

\* A list as it is, duplicates included
withDuplicates(seq) == seq

\* [...new Set(seq)]: the first occurrence of each value, in order.
uniqueInOrder(seq) ==
  filterSeq(seq, {i \in 1..Len(seq) : \A j \in 1..(i - 1) : seq[j] # seq[i]})

\* modulePaths.filter(...) in getModulePathsToImport
filterModulePaths(modulePaths, options) ==
  filterSeq(modulePaths,
    {i \in 1..Len(modulePaths) : keepModulePath(modulePaths[i], options)})

\* What getModulePathsToImport has the host list: each configured root in order,
\* or the whole project.
listModulePaths(options, project) ==
  IF hasPaths(options)
  THEN concatAll([i \in 1..Len(options.paths) |->
         readDirectory(project, resolve(project.currentDir, options.paths[i]))])
  ELSE readDirectory(project, project.currentDir)

\* getModulePathsToImport(options, project)
getModulePathsToImport(options, project) ==
  uniqueInOrder(filterModulePaths(listModulePaths(options, project), options))

(***************************************************************************)
(* Plugin.js: the module specifier.                                        *)
(***************************************************************************)

\* relativePath.startsWith(".") ? relativePath : "./" + relativePath
dotPrefixed(relativePath) ==
  IF startsWith(relativePath, <<".">>) THEN relativePath
  ELSE <<".", Slash>> \o relativePath

\* The fallback of getModuleSpceifier, up to the extension handling: the path.
fallbackPath(selfPath, modulePath, compilerOptions) ==
  IF Truthy(compilerOptions.baseUrl)
  THEN relative(compilerOptions.baseUrl, modulePath)
  ELSE replaceAll(dotPrefixed(relative(dirname(selfPath), modulePath)), "\\", Slash)

\* The extension handling with TypeScript's own default, where an unset ending is
\* "minimal"
withEndingDefaultMinimal(specifier, originalExt, ending) ==
  IF ending = Str("js") THEN specifier \o originalExt ELSE specifier

\* The extension handling of getModuleSpceifier's fallback, on the specifier without
\* its extension
withEnding(specifier, originalExt, ending) ==
  IF ending = Str("js") THEN specifier \o originalExt
  ELSE IF ending = Str("minimal") THEN specifier
  ELSE specifier \o originalExt

\* The fallback of getModuleSpceifier: the path, then the extension handling.
fallbackSpecifier(selfPath, modulePath, compilerOptions) ==
  withEnding(getFilePathWithoutExt(fallbackPath(selfPath, modulePath, compilerOptions)),
             extname(modulePath), compilerOptions.importModuleSpecifierEnding)

\* Whether getModuleSpceifier has the native resolver to call.
nativeAvailable(selfPath, project) == hasSourceFile(project, selfPath) /\ project.hasHost

\* The try/catch of getModuleSpceifier left out: the native resolver's exception
\* (the value NativeThrows) escapes to the caller.
nativeUncaught(available, native) == available

\* Whether getModuleSpceifier returns the native resolver's result: it was called,
\* and it did not throw.
nativeReturned(available, native) == available /\ native # NativeThrows

\* getModuleSpceifier(selfPath, modulePath, project)
getModuleSpceifier(selfPath, modulePath, project) ==
  IF nativeReturned(nativeAvailable(selfPath, project), project.nativeSpecifier)
  THEN project.nativeSpecifier
  ELSE fallbackSpecifier(selfPath, modulePath, project.compilerOptions)

\* The code fix of getCodeFixActionFromPath for the import statement text
codeFixAction(selfPath, text) ==
  [fixName |-> "namespace-import",
   description |-> text,
   changes |-> <<[fileName |-> selfPath,
                  textChanges |-> <<[span |-> [start |-> 0, length |-> 0],
                                     newText |-> text]>>]>>,
   commands |-> <<>>]

\* The import statement without the line break that ends it
importTextUnterminated(name, moduleSpecifier) ==
  Str("import * as ") \o name \o Str(" from \"") \o moduleSpecifier \o Str("\";")

\* `import * as ${name} from "${moduleSpecifier}";\n`
importText(name, moduleSpecifier) ==
  Str("import * as ") \o name \o Str(" from \"") \o moduleSpecifier \o Str("\";\n")

\* getCodeFixActionFromPath(name, selfPath, modulePath, project)
getCodeFixActionFromPath(name, selfPath, modulePath, project) ==
  codeFixAction(selfPath, importText(name, getModuleSpceifier(selfPath, modulePath, project)))

(***************************************************************************)
(* Plugin.js: what the decorated operations call.                          *)
(***************************************************************************)

\* An entry's absent data payload.
NoData == [present |-> FALSE, exportName |-> None, fileName |-> None, modulePath |-> None]

\* The entry getCompletionEntries makes for a module path and its name
completionEntry(name, modulePath) ==
  [name |-> name,
   kind |-> "alias",
   source |-> modulePath,
   sortText |-> Str("16") \o name,
   hasAction |-> TRUE,
   isImportStatementCompletion |-> TRUE,
   data |-> [present |-> TRUE, exportName |-> name, fileName |-> None,
             modulePath |-> modulePath]]

\* modulePaths.map(...) in getCompletionEntries
entriesOf(modulePaths, options) ==
  [i \in 1..Len(modulePaths) |->
     completionEntry(
       transformImportName(getFileNameWithoutExt(modulePaths[i]), options),
       modulePaths[i])]

\* getCompletionEntries(info)
getCompletionEntries(info) ==
  entriesOf(getModulePathsToImport(info.options, info.project), info.options)

\* The callback of dirPaths.some in filterNamedImportEntries
isNamedImportFrom(entry, dirPath) ==
  /\ entry.data.present
  /\ Truthy(entry.data.exportName)
  /\ entry.data.fileName # None
  /\ startsWith(entry.data.fileName, dirPath)

\* entries.filter(...) in filterNamedImportEntries
withoutNamedImportsFrom(entries, dirPaths) ==
  filterSeq(entries,
    {i \in 1..Len(entries) :
       ~\E k \in 1..Len(dirPaths) : isNamedImportFrom(entries[i], dirPaths[k])})

\* filterNamedImportEntries(entries, info): threw when options.paths.map is called
\* on an absent paths.
filterNamedImportEntries(entries, info) ==
  IF ~info.options.ignoreNamedExport THEN [threw |-> FALSE, value |-> entries]
  ELSE IF info.options.paths = PathsAbsent THEN [threw |-> TRUE, value |-> <<>>]
  ELSE [threw |-> FALSE,
        value |-> withoutNamedImportsFrom(entries,
          [i \in 1..Len(info.options.paths) |->
             resolve(info.project.currentDir, info.options.paths[i])])]

\* The position test without the look at the token: any position of a source file
completableInStrings(hasFile, tokenKind) == hasFile

\* isAutoCompletablePosition(sourceFile, position), with the kind of the token that
\* tsutils.getTokenAtPosition finds at the position ("Unknown" when it finds none)
isAutoCompletablePosition(hasFile, tokenKind) ==
  IF ~hasFile THEN FALSE ELSE tokenKind # "StringLiteral"

\* getCompletionEntryDetails(name, selfPath, modulePath, info)
getCompletionEntryDetails(name, selfPath, modulePath, info) ==
  [name |-> name,
   kind |-> "alias",
   kindModifiers |-> <<>>,
   displayParts |-> <<>>,
   codeActions |-> <<getCodeFixActionFromPath(name, selfPath, modulePath, info.project)>>]

\* The text getCodeFixActionByName reads: the source file's text.slice(start, end),
\* None when there is no program or no source file.
selectedText(project, selfPath, start, end) ==
  IF hasSourceFile(project, selfPath) THEN slice(project.sourceFiles[selfPath], start, end)
  ELSE None

\* The least and the greatest of a non-empty set of indices
firstOf(indices) == CHOOSE i \in indices : \A j \in indices : i <= j
lastOf(indices) == CHOOSE i \in indices : \A j \in indices : j <= i

\* The indices of the module paths whose basename is name
namedExactly(modulePaths, name) ==
  {i \in 1..Len(modulePaths) : getFileNameWithoutExt(modulePaths[i]) = name}

\* modulePaths.find(...), were it to return the last match: <<path>>, or <<>>
findLastModule(modulePaths, found) ==
  IF found = {} THEN <<>> ELSE <<modulePaths[lastOf(found)]>>

\* modulePaths.find(...) for the indices that satisfy the callback: <<path>>, or
\* <<>> for undefined
findModule(modulePaths, found) ==
  IF found = {} THEN <<>> ELSE <<modulePaths[firstOf(found)]>>

\* The end of getCodeFixActionByName: the action for the module found, if any
actionForFound(name, selfPath, found, project) ==
  IF found = <<>> THEN <<>>
  ELSE <<getCodeFixActionFromPath(name, selfPath, found[1], project)>>

\* getCodeFixActionByName for the selected text name and the discovered modules
actionByName(name, modulePaths, selfPath, project) ==
  IF ~Truthy(name) THEN <<>>
  ELSE actionForFound(name, selfPath,
         findModule(modulePaths, namedExactly(modulePaths, name)), project)

\* getCodeFixActionByName(selfPath, start, end, info): <<action>>, or <<>> for null
getCodeFixActionByName(selfPath, start, end, info) ==
  actionByName(selectedText(info.project, selfPath, start, end),
               getModulePathsToImport(info.options, info.project),
               selfPath, info.project)

(***************************************************************************)
(* The decorating layer: the three operations of the language service the  *)
(* plugin replaces. Each takes, besides the request, what the host's       *)
(* original operation returns for it, and yields                           *)
(*   threw      whether an exception escaped to the host                   *)
(*   value      the result                                                 *)
(*   delegated  whether the host's original operation was invoked          *)
(*   listed     whether module discovery ran (project.readDirectory)       *)
(***************************************************************************)

\* The host's "no completions" (undefined) and a completion info with entries.
NoCompletions == [isNull |-> TRUE, entries |-> <<>>]
Completions(entries) == [isNull |-> FALSE, entries |-> entries]

\* original.entries = [...originalEntries, ...namespaceImportEntries]
mergeEntries(originalEntries, namespaceImportEntries) ==
  IF originalEntries.threw
  THEN [threw |-> TRUE, value |-> NoCompletions, delegated |-> TRUE, listed |-> FALSE]
  ELSE [threw |-> FALSE,
        value |-> Completions(originalEntries.value \o namespaceImportEntries),
        delegated |-> TRUE, listed |-> TRUE]

\* info.languageService.getCompletionsAtPosition (decorated)
decoratedGetCompletionsAtPosition(fileName, tokenKind, triggerCharacter, original, info) ==
  IF \/ original.isNull
     \/ triggerCharacter # None
     \/ ~isAutoCompletablePosition(hasSourceFile(info.project, fileName), tokenKind)
  THEN [threw |-> FALSE, value |-> original, delegated |-> TRUE, listed |-> FALSE]
  ELSE mergeEntries(filterNamedImportEntries(original.entries, info),
                    getCompletionEntries(info))

\* The indices of the module paths that the redirection of a named export matches:
\* source.includes(moduleBasename) || modulePath.includes(source)
matchingSource(modulePaths, source) ==
  {i \in 1..Len(modulePaths) :
     \/ includes(source, getFileNameWithoutExt(modulePaths[i]))
     \/ includes(modulePaths[i], source)}

\* The redirection of getCompletionEntryDetails for the module it matched
redirectedDetails(fileName, matchingModule, info) ==
  getCompletionEntryDetails(
    transformImportName(getFileNameWithoutExt(matchingModule), info.options),
    fileName, matchingModule, info)

\* getCompletionEntryDetails (decorated) after the search for a matching module:
\* matchingModule is <<path>>, or <<>> when none matched or none was looked for
\* (searched tells which)
detailsFor(fileName, name, data, original, searched, matchingModule, info) ==
  IF matchingModule # <<>>
  THEN [threw |-> FALSE,
        value |-> redirectedDetails(fileName, matchingModule[1], info),
        delegated |-> FALSE, listed |-> searched]
  ELSE IF ~data.present \/ data.modulePath = None
  THEN [threw |-> FALSE, value |-> original, delegated |-> TRUE, listed |-> searched]
  ELSE [threw |-> FALSE,
        value |-> getCompletionEntryDetails(name, fileName, data.modulePath, info),
        delegated |-> FALSE, listed |-> searched]

\* The search of getCompletionEntryDetails (decorated) for a module to redirect to
matchingModuleFor(modulePaths, source) ==
  findModule(modulePaths, matchingSource(modulePaths, source))

\* namespaceNamedExports && source && !data?.modulePath
redirectionSought(source, data, info) ==
  /\ info.options.namespaceNamedExports
  /\ Truthy(source)
  /\ ~(data.present /\ Truthy(data.modulePath))

\* info.languageService.getCompletionEntryDetails (decorated)
decoratedGetCompletionEntryDetails(fileName, name, source, data, original, info) ==
  detailsFor(fileName, name, data, original, redirectionSought(source, data, info),
    IF redirectionSought(source, data, info)
    THEN matchingModuleFor(getModulePathsToImport(info.options, info.project), source)
    ELSE <<>>,
    info)

\* importAction ? [importAction, ...original] : original; getCodeFixActionByName
\* has run module discovery when it read a name (named)
prependAction(importAction, original, named) ==
  [threw |-> FALSE,
   value |-> IF importAction # <<>> THEN importAction \o original ELSE original,
   delegated |-> TRUE, listed |-> named]

\* info.languageService.getCodeFixesAtPosition (decorated)
decoratedGetCodeFixesAtPosition(fileName, start, end, original, info) ==
  prependAction(getCodeFixActionByName(fileName, start, end, info), original,
                Truthy(selectedText(info.project, fileName, start, end)))

(***************************************************************************)
(* The state: the plugin's configuration and the host it was created in,   *)
(* the request being served and its response. The plugin keeps no state of *)
(* its own between requests; offered is what the client holds: the entries *)
(* the latest completion listing synthesized.                              *)
(***************************************************************************)
VARIABLES
  options,    \* info.config.options
  project,    \* info.project and info.languageService, as the plugin reads them
  pc,         \* "idle": no request in progress; "responded": a handler has returned
  call,       \* the request: the operation and its arguments
  ret,        \* the handler's result
  hostCalls,  \* the host's operations the handler has invoked
  offered     \* the entries synthesized by the latest completion listing

vars == <<options, project, pc, call, ret, hostCalls, offered>>

NoCall == [op |-> "none"]
NoRet == [threw |-> FALSE]

CurrentDir == Str("/proj")

DefaultOptions ==
  [paths |-> PathsAbsent, ignoreNamedExport |-> FALSE, nameTransform |-> None,
   capitalizedFilesOnly |-> FALSE, namespaceNamedExports |-> FALSE]

DefaultCompilerOptions == [baseUrl |-> None, importModuleSpecifierEnding |-> None]

DefaultProject ==
  [currentDir |-> CurrentDir, listing |-> <<>>,
   compilerOptions |-> DefaultCompilerOptions, sourceFiles |-> <<>>,
   hasHost |-> TRUE, nativeSpecifier |-> NativeThrows]

\* Every sequence over S of length at most n.
SeqsUpTo(S, n) == UNION {[1..k -> S] : k \in 0..n}

(***************************************************************************)
(* The specifier resolver on its own: getModuleSpceifier is called for an  *)
(* importing file and a module of a project tree, under every compiler     *)
(* setting and every behaviour of the native resolver.                     *)
(***************************************************************************)
MaxDepth == 1

\* Directory names: plain, dot-prefixed, and one holding a backslash.
ResolverDirNames == {Str("a"), Str(".d"), Str("c\\e")}
ResolverDirs ==
  {CurrentDir \o concatAll([i \in 1..Len(segs) |-> <<Slash>> \o segs[i]]) :
     segs \in SeqsUpTo(ResolverDirNames, MaxDepth)}

ExampleSelf == Str("/proj/src/a/Foo.ts")
ExampleModule == Str("/proj/src/b/Bar.ts")
ExampleBaseUrl == Str("/proj/src")

ResolverSelfPaths == {d \o Str("/Main.ts") : d \in ResolverDirs} \cup {ExampleSelf}
ResolverModulePaths ==
  {d \o <<Slash>> \o f : d \in ResolverDirs, f \in {Str("Foo.ts"), Str("Bar.tsx")}}
    \cup {ExampleModule}
ResolverBaseUrls == {None, CurrentDir, CurrentDir \o Str("/a"), ExampleBaseUrl}
ResolverEndings == {None, Str("js"), Str("minimal"), Str("auto")}
NativeResult == Str("pkg/native")

\* The program's source files: all of the importing files, or none of them.
ResolverSourceFiles == {[f \in ResolverSelfPaths |-> <<>>], <<>>}

InitResolver ==
  /\ options = DefaultOptions
  /\ project \in
       {[DefaultProject EXCEPT
           !.compilerOptions = [baseUrl |-> b, importModuleSpecifierEnding |-> e],
           !.sourceFiles = sf, !.hasHost = h, !.nativeSpecifier = n] :
          b \in ResolverBaseUrls, e \in ResolverEndings, sf \in ResolverSourceFiles,
          h \in BOOLEAN, n \in {NativeThrows, NativeResult}}
  /\ pc = "idle"
  /\ call = NoCall
  /\ ret = NoRet
  /\ hostCalls = {}
  /\ offered = <<>>

\* A call of getModuleSpceifier(selfPath, modulePath, project).
CallGetModuleSpceifier ==
  /\ pc = "idle"
  /\ \E selfPath \in ResolverSelfPaths, modulePath \in ResolverModulePaths :
       /\ call' = [op |-> "getModuleSpceifier", selfPath |-> selfPath,
                   modulePath |-> modulePath]
       /\ ret' = [threw |-> getModuleSpceifier(selfPath, modulePath, project) = NativeThrows,
                  value |-> getModuleSpceifier(selfPath, modulePath, project)]
  /\ pc' = "responded"
  /\ UNCHANGED <<options, project, hostCalls, offered>>

NextResolver == CallGetModuleSpceifier

SpecResolver == InitResolver /\ [][NextResolver]_vars

Resolved == pc = "responded" /\ call.op = "getModuleSpceifier"

\* The call went to the fallback: the native resolver was unavailable or threw.
NativeFailed ==
  \/ ~hasSourceFile(project, call.selfPath)
  \/ ~project.hasHost
  \/ project.nativeSpecifier = NativeThrows

\* C2: when the native resolver is unavailable (no source file for the importing
\* file, or no project host) or throws, getModuleSpceifier returns exactly what the
\* fallback yields for the same inputs and no exception escapes; when the native
\* resolver returns, its result is returned verbatim.
C2_NativeThenFallback ==
  Resolved =>
    /\ ~ret.threw
    /\ NativeFailed =>
         ret.value = fallbackSpecifier(call.selfPath, call.modulePath, project.compilerOptions)
    /\ ~NativeFailed => ret.value = project.nativeSpecifier

\* C2's case: the native resolver was called and threw, and the fallback answered.
C2_Witness ==
  /\ Resolved
  /\ hasSourceFile(project, call.selfPath) /\ project.hasHost
  /\ project.nativeSpecifier = NativeThrows
  /\ ret.value = Str("../b/Bar.ts")

\* The fallback answered and the ending policy re-appends the extension, so that the
\* result is the specifier path itself.
FallbackWithExtension ==
  /\ Resolved /\ NativeFailed
  /\ project.compilerOptions.importModuleSpecifierEnding # Str("minimal")

\* The module lies in the importing file's directory or below it.
ModuleAtOrBelowSelf ==
  LET dir == resolveSegments(ProcessCwd, dirname(call.selfPath))
      mod == resolveSegments(ProcessCwd, call.modulePath)
  IN Len(dir) < Len(mod) /\ SubSeq(mod, 1, Len(dir)) = dir

\* C3: with no baseUrl the relative path from the importing file's directory gets
\* exactly one "./" in front when it does not start with ".", and nothing when it
\* does, so that a module in the importing file's directory or below reads "./..."
\* and never as a bare specifier; with a baseUrl the specifier is the path from
\* baseUrl to the module, with no "./" added.
C3_DotPrefixRule ==
  FallbackWithExtension =>
    LET rel == relative(dirname(call.selfPath), call.modulePath)
        baseUrl == project.compilerOptions.baseUrl
    IN IF Truthy(baseUrl)
       THEN ret.value = relative(baseUrl, call.modulePath)
       ELSE /\ ~startsWith(rel, <<".">>) =>
                 ret.value = replaceAll(<<".", Slash>> \o rel, "\\", Slash)
            /\ startsWith(rel, <<".">>) => ret.value = replaceAll(rel, "\\", Slash)
            /\ ModuleAtOrBelowSelf => startsWith(ret.value, <<".", Slash>>)

\* The module's original extension: its path from the last "." on.
OriginalExtension(modulePath) ==
  SubSeq(modulePath, LastIndexOf(modulePath, "."), Len(modulePath))

\* The last segment of a specifier.
LastSegment(specifier) ==
  SubSeq(specifier, LastIndexOf(specifier, Slash) + 1, Len(specifier))

\* C4: the fallback strips the module's original extension from the specifier; under
\* "minimal" the result is the specifier without any extension, under "js" it is the
\* specifier with the module's original extension re-appended, and under any other
\* value, unset included, it is the same string as under "js". /proj/src/a/Foo.ts
\* importing /proj/src/b/Bar.ts with no baseUrl gives "../b/Bar.ts" and, under
\* "minimal", "../b/Bar".
C4_ExtensionPolicy ==
  (Resolved /\ NativeFailed) =>
    LET co == project.compilerOptions
        ending == co.importModuleSpecifierEnding
        specifier == fallbackPath(call.selfPath, call.modulePath, co)
        ext == OriginalExtension(call.modulePath)
        stripped == SubSeq(specifier, 1, Len(specifier) - Len(ext))
        example == /\ call.selfPath = ExampleSelf /\ call.modulePath = ExampleModule
                   /\ co.baseUrl = None
    IN /\ endsWith(specifier, ext)
       /\ ending = Str("minimal") =>
            /\ ret.value = stripped
            /\ ~includes(LastSegment(ret.value), <<".">>)
            /\ example => ret.value = Str("../b/Bar")
       /\ ending = Str("js") => ret.value = stripped \o ext
       /\ ending # Str("minimal") =>
            /\ ret.value =
                 fallbackSpecifier(call.selfPath, call.modulePath,
                   [co EXCEPT !.importModuleSpecifierEnding = Str("js")])
            /\ example => ret.value = Str("../b/Bar.ts")

\* C4's case: the example under an unset ending, answered by the fallback.
C4_Witness ==
  /\ Resolved /\ NativeFailed
  /\ call.selfPath = ExampleSelf /\ call.modulePath = ExampleModule
  /\ project.compilerOptions = DefaultCompilerOptions
  /\ ret.value = Str("../b/Bar.ts")

\* C5: with or without a baseUrl, the specifier the fallback returns holds no
\* backslash.
C5_NoBackslash ==
  (Resolved /\ NativeFailed) => "\\" \notin Range(ret.value)

(***************************************************************************)
(* The name transform on its own: transformImportName is called for every  *)
(* basename over a small alphabet, under each nameTransform setting.       *)
(***************************************************************************)
MaxNameLen == 3

\* A lower-case letter, an upper-case letter, a digit and three separators.
NameAlphabet == {"s", "M", "7", "_", " ", "."}
NameInputs == SeqsUpTo(NameAlphabet, MaxNameLen) \cup {Str("state_machine")}
NameTransforms == {None, Str("PascalCase"), Str("camelCase")}

InitName ==
  /\ options \in {[DefaultOptions EXCEPT !.nameTransform = t] : t \in NameTransforms}
  /\ project = DefaultProject
  /\ pc = "idle"
  /\ call = NoCall
  /\ ret = NoRet
  /\ hostCalls = {}
  /\ offered = <<>>

\* A call of transformImportName(name, options).
CallTransformImportName ==
  /\ pc = "idle"
  /\ \E name \in NameInputs :
       /\ call' = [op |-> "transformImportName", name |-> name]
       /\ ret' = [threw |-> FALSE, value |-> transformImportName(name, options)]
  /\ pc' = "responded"
  /\ UNCHANGED <<options, project, hostCalls, offered>>

NextName == CallTransformImportName

SpecName == InitName /\ [][NextName]_vars

\* The alphanumeric characters of name in order, each written as the words demand:
\* a word is a maximal run of alphanumeric characters; its first character is upper
\* case and its others lower case, but a camelCase first word is all lower case.
WordsRecased(name, pascal) ==
  LET alnumAt == {i \in 1..Len(name) : IsAlnum(name[i])}
      wordStart(i) == i = 1 \/ ~IsAlnum(name[i - 1])
      inFirstWord(i) == \A j \in 1..i : j \in alnumAt => \A k \in j..i : k \in alnumAt
      recased(i) == IF inFirstWord(i) /\ ~pascal THEN toLowerCaseChar(name[i])
                    ELSE IF wordStart(i) THEN toUpperCaseChar(name[i])
                    ELSE toLowerCaseChar(name[i])
  IN filterSeq([i \in 1..Len(name) |-> recased(i)], alnumAt)

\* C8: transformImportName returns the basename unchanged when nameTransform is
\* absent; otherwise the words between runs of non-alphanumeric characters, empty
\* words discarded, each capitalized for PascalCase, the first all lower case and the
\* others capitalized for camelCase; "state_machine" gives "StateMachine" and
\* "stateMachine"; a basename with no alphanumeric character gives the empty string;
\* the result holds only alphanumeric characters.
C8_NameTransform ==
  (pc = "responded" /\ call.op = "transformImportName") =>
    LET t == options.nameTransform
        name == call.name
    IN /\ t = None => ret.value = name
       /\ t # None =>
            /\ ret.value = WordsRecased(name, t = Str("PascalCase"))
            /\ \A i \in 1..Len(ret.value) : IsAlnum(ret.value[i])
            /\ (\A i \in 1..Len(name) : ~IsAlnum(name[i])) => ret.value = <<>>
            /\ name = Str("state_machine") =>
                 ret.value = IF t = Str("PascalCase") THEN Str("StateMachine")
                             ELSE Str("stateMachine")

\* C8's case: a basename of two words, recased to camelCase.
C8_Witness ==
  /\ pc = "responded" /\ call.op = "transformImportName"
  /\ options.nameTransform = Str("camelCase")
  /\ call.name = Str("state_machine")
  /\ ret.value = Str("stateMachine")

(***************************************************************************)
(* Module discovery on its own: getModulePathsToImport is called under     *)
(* every configuration of search roots and every behaviour of the host's   *)
(* directory lister for the roots the configuration makes it list.         *)
(***************************************************************************)
MaxListing == 2

DiscoveryFiles ==
  {Str("/proj/src/b/Foo.ts"), Str("/proj/src/b/Foo.test.ts"),
   Str("/proj/src/b/stateMachine.ts"), Str("/proj/src/b/StateMachine.tsx")}

\* paths absent, empty, one root, overlapping roots, a repeated root, and one root
\* spelled in two ways.
DiscoveryPaths ==
  {PathsAbsent, <<>>, <<Str("src")>>, <<Str("src"), Str("src/b")>>,
   <<Str("src"), Str("src")>>, <<Str("src/b/"), Str("./src/b")>>}

\* The roots getModulePathsToImport has the host list.
RootsOf(opts) ==
  IF hasPaths(opts) THEN {resolve(CurrentDir, opts.paths[i]) : i \in 1..Len(opts.paths)}
  ELSE {CurrentDir}

InitDiscovery ==
  /\ options \in {[DefaultOptions EXCEPT !.paths = ps, !.capitalizedFilesOnly = c] :
                    ps \in DiscoveryPaths, c \in BOOLEAN}
  /\ project \in {[DefaultProject EXCEPT !.listing = l] :
                    l \in [RootsOf(options) -> SeqsUpTo(DiscoveryFiles, MaxListing)]}
  /\ pc = "idle"
  /\ call = NoCall
  /\ ret = NoRet
  /\ hostCalls = {}
  /\ offered = <<>>

\* A call of getModulePathsToImport(options, project).
CallGetModulePathsToImport ==
  /\ pc = "idle"
  /\ call' = [op |-> "getModulePathsToImport"]
  /\ ret' = [threw |-> FALSE, value |-> getModulePathsToImport(options, project)]
  /\ pc' = "responded"
  /\ UNCHANGED <<options, project, hostCalls, offered>>

NextDiscovery == CallGetModulePathsToImport

SpecDiscovery == InitDiscovery /\ [][NextDiscovery]_vars

Discovered == pc = "responded" /\ call.op = "getModulePathsToImport"

\* The paths the lister reported for the roots it was asked about.
Reported == UNION {Range(project.listing[r]) : r \in RootsOf(options)}

\* How many times the lister reported a path, over all the roots of the
\* configuration in order.
TimesReported(p) ==
  LET all == IF hasPaths(options)
             THEN concatAll([i \in 1..Len(options.paths) |->
                    project.listing[resolve(CurrentDir, options.paths[i])]])
             ELSE project.listing[CurrentDir]
  IN Cardinality({i \in 1..Len(all) : all[i] = p})

\* The post-filter as the specification words it: the basename without its
\* extension (the last segment up to its last ".") holds no ".", and under
\* capitalizedFilesOnly the basename starts with an upper-case ASCII letter.
PassesPostFilter(p, capitalizedOnly) ==
  LET seg == LastSegment(p)
      stem == SubSeq(seg, 1, LastIndexOf(seg, ".") - 1)
  IN /\ "." \notin Range(stem)
     /\ capitalizedOnly => (stem # <<>> /\ IsUpper(stem[1]))

\* C6: the list getModulePathsToImport returns holds each path string at most once,
\* however many roots reported it, and a path reported by at least one root that
\* passes the post-filter is in it exactly once.
C6_Dedup ==
  Discovered =>
    /\ \A i, j \in 1..Len(ret.value) : ret.value[i] = ret.value[j] => i = j
    /\ \A p \in Reported :
         PassesPostFilter(p, options.capitalizedFilesOnly) =>
           Cardinality({i \in 1..Len(ret.value) : ret.value[i] = p}) = 1

\* C6's case: overlapping roots reported the same path, which is returned once.
C6_Witness ==
  /\ Discovered
  /\ options.paths = <<Str("src"), Str("src/b")>>
  /\ TimesReported(Str("/proj/src/b/Foo.ts")) = 3
  /\ ret.value = <<Str("/proj/src/b/Foo.ts")>>

\* C7: a reported path is in the result if and only if it passes the post-filter;
\* Foo.test.ts is never a candidate while Foo.ts is, and with capitalizedFilesOnly
\* stateMachine.ts is excluded while StateMachine is included.
C7_PostFilter ==
  Discovered =>
    LET result == Range(ret.value)
        capitalizedOnly == options.capitalizedFilesOnly
    IN /\ result \subseteq Reported
       /\ \A p \in Reported : p \in result <=> PassesPostFilter(p, capitalizedOnly)
       /\ Str("/proj/src/b/Foo.test.ts") \notin result
       /\ Str("/proj/src/b/Foo.ts") \in Reported => Str("/proj/src/b/Foo.ts") \in result
       /\ capitalizedOnly =>
            /\ Str("/proj/src/b/stateMachine.ts") \notin result
            /\ Str("/proj/src/b/StateMachine.tsx") \in Reported =>
                 Str("/proj/src/b/StateMachine.tsx") \in result

\* C7's case: under capitalizedFilesOnly the lister reported stateMachine.ts and
\* StateMachine.tsx, and only the latter is a candidate.
C7_Witness ==
  /\ Discovered
  /\ options.capitalizedFilesOnly
  /\ Reported = {Str("/proj/src/b/stateMachine.ts"), Str("/proj/src/b/StateMachine.tsx")}
  /\ ret.value = <<Str("/proj/src/b/StateMachine.tsx")>>

(***************************************************************************)
(* The plugin in a host: requests of the three decorated operations arrive *)
(* one at a time; each handler runs to completion and its result goes back *)
(* to the client, which may follow a completion listing with a detail      *)
(* request for one of the entries it was offered.                          *)
(***************************************************************************)
MaxEntries == 2
MaxPos == 5

MainFile == Str("/proj/src/a/Main.ts")
MissingFile == Str("/proj/src/a/Gone.ts")
MainText == Str("xFoo;")

FooTs == Str("/proj/src/b/Foo.ts")
FooTsx == Str("/proj/src/b/Foo.tsx")
StateMachineTs == Str("/proj/src/b/state_machine.ts")
LibFoo == Str("/proj/lib/Foo.ts")
BazTs == Str("/proj/src/bar/Baz.ts")

\* What the host's lister reports: for the whole project, and for each root.
LayerListing ==
  (CurrentDir :> <<LibFoo, FooTs, BazTs>>)
    @@ (Str("/proj/src/b") :> <<FooTsx, StateMachineTs, FooTs>>)
    @@ (Str("/proj/lib") :> <<LibFoo>>)

LayerPaths == {PathsAbsent, <<Str("src/b")>>, <<Str("lib"), Str("src/b")>>}

\* A completion entry of the host's own: a local symbol (no data), or an
\* auto-import of exportName from fileName (None for an ambient module).
NativeEntry(name, data) ==
  [name |-> name, kind |-> "function", source |-> None, sortText |-> Str("11"),
   hasAction |-> data.present, isImportStatementCompletion |-> FALSE, data |-> data]
NamedExport(exportName, fileName) ==
  [present |-> TRUE, exportName |-> exportName, fileName |-> fileName, modulePath |-> None]

NativeEntries ==
  {NativeEntry(Str("local"), NoData),
   NativeEntry(Str("make"), NamedExport(Str("make"), FooTs)),
   NativeEntry(Str("other"), NamedExport(Str("other"), Str("/proj/src/a/Other.ts"))),
   NativeEntry(Str("baz"), NamedExport(Str("baz"), BazTs)),
   NativeEntry(Str("fs"), NamedExport(Str("fs"), None))}

\* The host's own details for an entry, and its own code fixes.
HostDetails(name) ==
  [name |-> name, kind |-> "function", kindModifiers |-> <<>>, displayParts |-> <<>>,
   codeActions |-> <<>>]
HostFix ==
  [fixName |-> "import", description |-> Str("Add import"), changes |-> <<>>,
   commands |-> <<>>]

Info == [options |-> options, project |-> project]

InitLayer ==
  /\ options \in
       {[DefaultOptions EXCEPT !.paths = ps, !.ignoreNamedExport = i,
                               !.nameTransform = t, !.namespaceNamedExports = n] :
          ps \in LayerPaths, i \in BOOLEAN, t \in {None, Str("PascalCase")},
          n \in BOOLEAN}
  /\ project \in
       {[DefaultProject EXCEPT !.listing = LayerListing,
                               !.sourceFiles = (MainFile :> MainText),
                               !.nativeSpecifier = s] :
          s \in {NativeThrows, NativeResult}}
  /\ pc = "idle"
  /\ call = NoCall
  /\ ret = NoRet
  /\ hostCalls = {}
  /\ offered = <<>>

\* The handler's result, as ret and hostCalls record it.
Respond(op, result) ==
  /\ ret' = [threw |-> result.threw, value |-> result.value]
  /\ hostCalls' = (IF result.delegated THEN {op} ELSE {})
                     \cup (IF result.listed THEN {"readDirectory"} ELSE {})
  /\ pc' = "responded"

\* The entries of a completion result that carry a module path: the synthesized ones.
Synthesized(entries) ==
  filterSeq(entries, {i \in 1..Len(entries) : entries[i].data.modulePath # None})

\* The response of a completion listing; the client now holds the entries it
\* synthesized, if it synthesized any.
RespondCompletions(result, original) ==
  /\ Respond("getCompletionsAtPosition", result)
  /\ offered' = IF ~result.threw /\ result.value # original
                THEN Synthesized(result.value.entries)
                ELSE offered

\* A completion listing request.
GetCompletionsAtPosition ==
  /\ pc = "idle"
  /\ \E fileName \in {MainFile, MissingFile},
        tokenKind \in {"Identifier", "StringLiteral", "Unknown"},
        triggerCharacter \in {None, <<".">>},
        original \in {NoCompletions}
                       \cup {Completions(es) : es \in SeqsUpTo(NativeEntries, MaxEntries)} :
       /\ call' = [op |-> "getCompletionsAtPosition", fileName |-> fileName,
                   tokenKind |-> tokenKind, triggerCharacter |-> triggerCharacter,
                   original |-> original]
       /\ RespondCompletions(
            decoratedGetCompletionsAtPosition(
              fileName, tokenKind, triggerCharacter, original, Info),
            original)
  /\ UNCHANGED <<options, project>>

\* What a detail request carries: the name, source and data of an entry the client
\* was offered, or those of an entry of the host's own.
DetailRequests ==
  {[name |-> offered[i].name, source |-> offered[i].source, data |-> offered[i].data] :
     i \in 1..Len(offered)}
  \cup {[name |-> Str("make"), source |-> src, data |-> d] :
          src \in {None, Str("../b/Foo"), Str("lodash"), Str("lib")},
          d \in {NoData, NamedExport(Str("make"), FooTs)}}

\* A completion detail request.
GetCompletionEntryDetails ==
  /\ pc = "idle"
  /\ \E fileName \in {MainFile, MissingFile}, req \in DetailRequests,
        original \in {HostDetails(None), HostDetails(Str("make"))} :
       /\ call' = [op |-> "getCompletionEntryDetails", fileName |-> fileName,
                   name |-> req.name, source |-> req.source, data |-> req.data,
                   original |-> original]
       /\ Respond("getCompletionEntryDetails",
            decoratedGetCompletionEntryDetails(
              fileName, req.name, req.source, req.data, original, Info))
  /\ UNCHANGED <<options, project, offered>>

\* A code-fix listing request.
GetCodeFixesAtPosition ==
  /\ pc = "idle"
  /\ \E fileName \in {MainFile, MissingFile}, start \in 0..MaxPos, end \in 0..MaxPos,
        original \in {<<>>, <<HostFix>>} :
       /\ call' = [op |-> "getCodeFixesAtPosition", fileName |-> fileName,
                   start |-> start, end |-> end, original |-> original]
       /\ Respond("getCodeFixesAtPosition",
            decoratedGetCodeFixesAtPosition(fileName, start, end, original, Info))
  /\ UNCHANGED <<options, project, offered>>

\* The response has gone back to the client; the next request may arrive.
Return ==
  /\ pc = "responded"
  /\ pc' = "idle"
  /\ call' = NoCall
  /\ ret' = NoRet
  /\ hostCalls' = {}
  /\ UNCHANGED <<options, project, offered>>

Init == InitLayer

Next ==
  \/ GetCompletionsAtPosition
  \/ GetCompletionEntryDetails
  \/ GetCodeFixesAtPosition
  \/ Return

Spec == Init /\ [][Next]_vars

\* A completion listing that went on to merge: the host returned a result, no trigger
\* character was given, and the position is completable.
Merged ==
  /\ pc = "responded" /\ call.op = "getCompletionsAtPosition"
  /\ ~call.original.isNull
  /\ call.triggerCharacter = None
  /\ hasSourceFile(project, call.fileName)
  /\ call.tokenKind # "StringLiteral"

\* The file lies under the search root (resolved against the project root): it is
\* the root or is below it.
LiesUnder(fileName, root) ==
  LET f == resolveSegments(CurrentDir, fileName)
      r == resolveSegments(CurrentDir, root)
  IN Len(r) <= Len(f) /\ SubSeq(f, 1, Len(r)) = r

\* A native entry whose originating file lies under a configured search root.
UnderSomeRoot(entry) ==
  /\ entry.data.present
  /\ entry.data.fileName # None
  /\ \E i \in 1..Len(options.paths) : LiesUnder(entry.data.fileName, options.paths[i])

\* C1: with ignoreNamedExport and a non-empty paths, the merged list holds no native
\* entry whose originating file lies under a configured search root, and holds every
\* native entry whose originating file lies outside every root, unchanged and in the
\* original order.
C1_NamedExportSuppression ==
  (Merged /\ options.ignoreNamedExport /\ hasPaths(options)) =>
    LET merged == ret.value.entries
        natives == call.original.entries
        native == {i \in 1..Len(merged) : merged[i].data.modulePath = None}
    IN /\ ~ret.threw
       /\ \A i \in native : ~UnderSomeRoot(merged[i])
       /\ filterSeq(merged, native) =
            filterSeq(natives, {i \in 1..Len(natives) : ~UnderSomeRoot(natives[i])})

\* A detail request that carries the name and the data of an entry the latest
\* completion listing synthesized.
AcceptsOffered ==
  /\ pc = "responded" /\ call.op = "getCompletionEntryDetails"
  /\ \E i \in 1..Len(offered) :
       call.name = offered[i].name /\ call.data = offered[i].data

\* The one text change of a code action's one file change.
OnlyTextChange(action) == action.changes[1].textChanges[1]

\* The action is a "namespace-import" fix with one change, in fileName, of one text
\* change: newText inserted at offset 0.
InsertsAtStart(action, fileName, newText) ==
  /\ action.fixName = "namespace-import"
  /\ Len(action.changes) = 1
  /\ action.changes[1].fileName = fileName
  /\ Len(action.changes[1].textChanges) = 1
  /\ OnlyTextChange(action).span = [start |-> 0, length |-> 0]
  /\ OnlyTextChange(action).newText = newText

\* C9: a detail request carrying a synthesized entry's name and data returns details
\* of that name with exactly one code action, "namespace-import", whose only change
\* is in the requesting file: one text change of span start 0 and length 0 whose text
\* is 'import * as <name> from "<specifier>";\n', the specifier being the resolver's
\* for the requesting file and the entry's modulePath; the host's own detail
\* operation is not consulted.
C9_AcceptSynthesized ==
  AcceptsOffered =>
    /\ ~ret.threw
    /\ "getCompletionEntryDetails" \notin hostCalls
    /\ ret.value.name = call.name
    /\ Len(ret.value.codeActions) = 1
    /\ InsertsAtStart(ret.value.codeActions[1], call.fileName,
         Str("import * as ") \o call.name \o Str(" from \"")
           \o getModuleSpceifier(call.fileName, call.data.modulePath, project)
           \o Str("\";\n"))

\* C9's case: the entry synthesized for src/b/state_machine.ts, renamed to
\* PascalCase, is accepted in Main.ts and the fallback resolves the specifier.
C9_Witness ==
  /\ AcceptsOffered
  /\ call.fileName = MainFile
  /\ call.data.modulePath = StateMachineTs
  /\ OnlyTextChange(ret.value.codeActions[1]).newText =
       Str("import * as StateMachine from \"../b/state_machine.ts\";\n")

CodeFixesListed == pc = "responded" /\ call.op = "getCodeFixesAtPosition"

\* The text that [start, end) selects in the requesting file; empty when the file
\* is not in the program.
Selected ==
  LET text == IF hasSourceFile(project, call.fileName)
              THEN project.sourceFiles[call.fileName] ELSE <<>>
      stop == IF call.end < Len(text) THEN call.end ELSE Len(text)
  IN [i \in 1..(stop - call.start) |-> text[call.start + i]]

\* A path's basename: its last segment up to the last ".".
Stem(p) == SubSeq(LastSegment(p), 1, LastIndexOf(LastSegment(p), ".") - 1)

\* C10: when the selected text is the basename of a discovered module, the result
\* is the host's fixes with one "namespace-import" fix in front, for the first
\* discovered module of that basename and binding the selected text; when the
\* selection is empty, the source file is unavailable or no discovered module has
\* that basename, the result is the host's fixes unmodified.
C10_CodeFixListing ==
  CodeFixesListed =>
    LET discovered == getModulePathsToImport(options, project)
        named == {i \in 1..Len(discovered) : Stem(discovered[i]) = Selected}
        first == CHOOSE i \in named : \A j \in named : i <= j
    IN /\ ~ret.threw
       /\ IF Selected # <<>> /\ named # {}
          THEN /\ Len(ret.value) = Len(call.original) + 1
               /\ Tail(ret.value) = call.original
               /\ InsertsAtStart(ret.value[1], call.fileName,
                    Str("import * as ") \o Selected \o Str(" from \"")
                      \o getModuleSpceifier(call.fileName, discovered[first], project)
                      \o Str("\";\n"))
          ELSE ret.value = call.original

\* C10's case: "Foo" is selected, three discovered modules are named Foo, and the fix
\* for the first of them, lib/Foo.ts, is put in front of the host's fix.
C10_Witness ==
  /\ CodeFixesListed
  /\ options.paths = <<Str("lib"), Str("src/b")>>
  /\ Selected = Str("Foo")
  /\ call.original = <<HostFix>>
  /\ Len(ret.value) = 2
  /\ OnlyTextChange(ret.value[1]).newText =
       Str("import * as Foo from \"../../lib/Foo.ts\";\n")

CompletionsListed == pc = "responded" /\ call.op = "getCompletionsAtPosition"

\* The listing has a reason to skip: the host returned no completion result, the
\* program has no source file of the requested name, or the token under the cursor
\* is a string literal.
SkipCondition ==
  \/ call.original.isNull
  \/ ~hasSourceFile(project, call.fileName)
  \/ call.tokenKind = "StringLiteral"

\* C11: when the host returns no completion result, or there is no source file for
\* the requested file name, or the token under the cursor is a string literal, the
\* decorated completion listing returns the host's original result with its entries
\* unchanged, whatever ignoreNamedExport is, and module discovery is not run.
C11_SkipConditions ==
  (CompletionsListed /\ SkipCondition) =>
    /\ ~ret.threw
    /\ ret.value = call.original
    /\ "readDirectory" \notin hostCalls

\* C11's case: inside a string literal of Main.ts, with ignoreNamedExport set and a
\* native entry from under the search root src/b, the host's two entries come back.
C11_Witness ==
  /\ CompletionsListed
  /\ call.fileName = MainFile /\ call.tokenKind = "StringLiteral"
  /\ call.triggerCharacter = None
  /\ options.ignoreNamedExport /\ options.paths = <<Str("src/b")>>
  /\ Len(call.original.entries) = 2
  /\ call.original.entries[1].data.fileName = FooTs
  /\ ret.value = call.original
  /\ hostCalls = {"getCompletionsAtPosition"}

DetailsAsked == pc = "responded" /\ call.op = "getCompletionEntryDetails"

\* The request carries no module-path payload.
NoModulePathPayload == ~call.data.present \/ call.data.modulePath = None

\* The discovered modules whose basename the request's source string contains.
SourceNames ==
  LET discovered == getModulePathsToImport(options, project)
  IN IF call.source = None THEN {}
     ELSE {discovered[i] : i \in {j \in 1..Len(discovered) :
                                    includes(call.source, Stem(discovered[j]))}}

\* The details are those of a namespace import of the module, bound to the
\* transformed basename of the module.
ImportsNamespaceOf(details, modulePath) ==
  /\ details.name = transformImportName(Stem(modulePath), options)
  /\ Len(details.codeActions) = 1
  /\ InsertsAtStart(details.codeActions[1], call.fileName,
       Str("import * as ") \o transformImportName(Stem(modulePath), options)
         \o Str(" from \"") \o getModuleSpceifier(call.fileName, modulePath, project)
         \o Str("\";\n"))

\* C12: a detail request is redirected into namespace-import synthesis exactly when
\* namespaceNamedExports is enabled, the request carries no module-path payload and
\* its source string contains the basename of some discovered module, and then the
\* result binds the transformed basename of the matched module and imports it; every
\* other request without a module-path payload is delegated to the host's original
\* detail operation and the host's result is returned as it is.
C12_Redirection ==
  (DetailsAsked /\ NoModulePathPayload) =>
    /\ ~ret.threw
    /\ IF options.namespaceNamedExports /\ SourceNames # {}
       THEN /\ \E m \in SourceNames : ImportsNamespaceOf(ret.value, m)
            /\ "getCompletionEntryDetails" \notin hostCalls
       ELSE /\ ret.value = call.original
            /\ "getCompletionEntryDetails" \in hostCalls

\* C13: when paths is absent the decorated completion listing raises no error,
\* whether ignoreNamedExport is false or true, and removes no native entry: a merged
\* result is all of the native entries followed by the synthesized entries.
C13_AbsentPaths ==
  (CompletionsListed /\ options.paths = PathsAbsent) =>
    /\ ~ret.threw
    /\ Merged =>
         ret.value.entries = call.original.entries \o getCompletionEntries(Info)
====
